---------------------------- MODULE Spec2Model ----------------------------
(***************************************************************************)
(* A model of tidyss/fastq.py: classification of FASTQ files by filename   *)
(* and by first sequence identifier (class Fastq), aggregation of the      *)
(* classified files into a sample sheet (build_samples), and the two       *)
(* commands, check and discover.                                           *)
(*                                                                         *)
(* Text is modelled as a sequence of one-character strings, so that the    *)
(* regular expressions of the source are executed character by character.  *)
(***************************************************************************)
EXTENDS Integers, Sequences, FiniteSets, TLC

VARIABLES
    cmd,            \* the entry point running: "check", "discover", "build_samples", "length"
    pc,             \* position in the running entry point
    raised,         \* the exception that ended the run, or "none"
    disk,           \* the file system: path -> [exists, readable, line1, nlines]
    args,           \* the parsed command line (argparse namespace)
    fastq_paths,    \* discover: the paths found by scan_dir, then filtered
    fastqs,         \* the Fastq objects built so far
    stdout,         \* check: the records printed
    stderr,         \* discover: the summary lines written
    io,             \* the file operations performed so far, in order
    samples,        \* build_samples: the mapping being built
    samplesheet,    \* discover: the document handed to print_samplesheet
    written,        \* the texts print_samplesheet wrote to args.out
    i,              \* the index of the running loop (in length: enumerate's i)
    fq,             \* length: how many lines of the open file have been read
    returned,       \* length: the value returned
    permuted,       \* build: build_samples of the permutations of fastqs
    python          \* the interpreter's major version (2 or 3)

vars == <<cmd, pc, raised, disk, args, fastq_paths, fastqs, stdout, stderr, io,
          samples, samplesheet, written, i, fq, returned, permuted, python>>

-----------------------------------------------------------------------------
(* Python values *)

\* Python's None.  Text is a sequence of one-character strings, so this
\* one-element sequence is distinct from every text value.
None == <<"None">>

\* str(v), as "{}".format(v) renders it.
Str(v) == IF v = None THEN <<"N", "o", "n", "e">> ELSE v

\* Truthiness of a text-or-None value: None and '' are falsy.
Truthy(v) == v # None /\ v # <<>>

\* a or b
Or(a, b) == IF Truthy(a) THEN a ELSE b

\* An empty dict.
EmptyDict == <<>>

\* d.get(key)
Get(d, key) == IF key \in DOMAIN d THEN d[key] ELSE None

Digit == {"0", "1", "2", "3", "4", "5", "6", "7", "8", "9"}
Lower == {"a", "b", "c", "d", "e", "f", "g", "h", "i", "j", "k", "l", "m",
          "n", "o", "p", "q", "r", "s", "t", "u", "v", "w", "x", "y", "z"}
Upper == {"A", "B", "C", "D", "E", "F", "G", "H", "I", "J", "K", "L", "M",
          "N", "O", "P", "Q", "R", "S", "T", "U", "V", "W", "X", "Y", "Z"}
Whitespace == {" ", "\t", "\n", "\r", "\f"}

DigitValue(c) ==
    CASE c = "0" -> 0 [] c = "1" -> 1 [] c = "2" -> 2 [] c = "3" -> 3
      [] c = "4" -> 4 [] c = "5" -> 5 [] c = "6" -> 6 [] c = "7" -> 7
      [] c = "8" -> 8 [] c = "9" -> 9

\* int(s) for a non-empty text of decimal digits.
RECURSIVE ToInt(_)
ToInt(s) ==
    IF Len(s) = 1 THEN DigitValue(s[1])
    ELSE 10 * ToInt(SubSeq(s, 1, Len(s) - 1)) + DigitValue(s[Len(s)])

\* s.strip(chars): drop leading and trailing characters that are in chars.
RECURSIVE LStrip(_, _)
LStrip(s, chars) ==
    IF Len(s) > 0 /\ s[1] \in chars THEN LStrip(Tail(s), chars) ELSE s

RECURSIVE RStrip(_, _)
RStrip(s, chars) ==
    IF Len(s) > 0 /\ s[Len(s)] \in chars
    THEN RStrip(SubSeq(s, 1, Len(s) - 1), chars) ELSE s

Strip(s, chars) == RStrip(LStrip(s, chars), chars)

\* s.endswith(suffix)
EndsWith(s, suffix) ==
    /\ Len(suffix) <= Len(s)
    /\ SubSeq(s, Len(s) - Len(suffix) + 1, Len(s)) = suffix

\* s.startswith(prefix)
StartsWith(s, prefix) ==
    /\ Len(prefix) <= Len(s)
    /\ SubSeq(s, 1, Len(prefix)) = prefix

\* os.path.basename(path): what follows the last "/".
RECURSIVE basename(_)
basename(path) ==
    IF \E k \in 1..Len(path) : path[k] = "/"
    THEN basename(Tail(path))
    ELSE path

-----------------------------------------------------------------------------
(* Regular expressions (module re).  A pattern is a sequence of nodes; the  *)
(* matcher is a backtracking matcher with Python's priorities: a greedy     *)
(* repeat prefers more repetitions, a lazy one fewer, an optional part is   *)
(* tried present before absent, an alternation tries its branches left to  *)
(* right; the first complete match in that order is the result.            *)

Cls(set)    == [t |-> "cls", set |-> set]               \* [...] and \d, \s
Dot         == [t |-> "any"]                            \* .
Lit(text)   == [t |-> "lit", s |-> text]                \* literal text
Eos         == [t |-> "eos"]                            \* $
Grp(n, sub) == [t |-> "grp", name |-> n, sub |-> sub]   \* (?P<n>sub)
Alt(a, b)   == [t |-> "alt", a |-> a, b |-> b]          \* a|b
Opt(sub)    == [t |-> "opt", sub |-> sub]               \* (sub)?
\* c{min,max} (greedy) or c{min,max}? (lazy), c a one-character node
Rep(c, min, max, greedy) ==
    [t |-> "rep", c |-> c, min |-> min, max |-> max, greedy |-> greedy]

Unbounded == -1
Star(c)     == Rep(c, 0, Unbounded, TRUE)               \* c*
PlusLazy(c) == Rep(c, 1, Unbounded, FALSE)              \* c+?

\* Whether the one-character node c accepts the character ch.
Accepts(c, ch) == IF c.t = "any" THEN ch # "\n" ELSE ch \in c.set

\* How many characters of s, from position pos on, the node c accepts in a row.
RunLength(c, s, pos) ==
    LET ns == {n \in 0..(Len(s) - pos + 1) :
                 \A j \in 0..(n - 1) : Accepts(c, s[pos + j])}
    IN  CHOOSE n \in ns : \A m \in ns : m <= n

NoMatch == [ok |-> FALSE, gd |-> EmptyDict, end |-> 0]

\* The first of two attempts if it matched, else the second.
OrElse(first, second) == IF first.ok THEN first ELSE second

\* Match the node sequence from position pos of s, with the groups captured
\* so far; the result of the first successful path in priority order.  A
\* repeat tries its counts in order of preference, from n on: downwards to
\* min when greedy, upwards to the most that can be taken when lazy.
RECURSIVE Run(_, _, _, _), RunRep(_, _, _, _, _, _, _)
Run(nodes, s, pos, caps) ==
    IF Len(nodes) = 0 THEN [ok |-> TRUE, gd |-> caps, end |-> pos]
    ELSE
    LET h    == Head(nodes)
        rest == Tail(nodes)
    IN  CASE h.t \in {"cls", "any"} ->
               IF pos <= Len(s) /\ Accepts(h, s[pos])
               THEN Run(rest, s, pos + 1, caps) ELSE NoMatch
          [] h.t = "lit" ->
               IF /\ pos + Len(h.s) - 1 <= Len(s)
                  /\ SubSeq(s, pos, pos + Len(h.s) - 1) = h.s
               THEN Run(rest, s, pos + Len(h.s), caps) ELSE NoMatch
          [] h.t = "eos" ->
               IF pos = Len(s) + 1 \/ (pos = Len(s) /\ s[pos] = "\n")
               THEN Run(rest, s, pos, caps) ELSE NoMatch
          [] h.t = "grp" ->
               Run(h.sub \o <<[t |-> "cap", name |-> h.name, start |-> pos]>> \o rest,
                   s, pos, caps)
          [] h.t = "cap" ->
               Run(rest, s, pos, (h.name :> SubSeq(s, h.start, pos - 1)) @@ caps)
          [] h.t = "alt" ->
               OrElse(Run(h.a \o rest, s, pos, caps), Run(h.b \o rest, s, pos, caps))
          [] h.t = "opt" ->
               OrElse(Run(h.sub \o rest, s, pos, caps), Run(rest, s, pos, caps))
          [] h.t = "rep" ->
               LET avail == RunLength(h.c, s, pos)
                   most  == IF h.max = Unbounded \/ avail < h.max
                            THEN avail ELSE h.max
               IN  IF most < h.min THEN NoMatch
                   ELSE RunRep(h, most, IF h.greedy THEN most ELSE h.min,
                               rest, s, pos, caps)

RunRep(h, most, n, rest, s, pos, caps) ==
    OrElse(Run(rest, s, pos + n, caps),
           IF h.greedy
           THEN (IF n = h.min THEN NoMatch
                 ELSE RunRep(h, most, n - 1, rest, s, pos, caps))
           ELSE (IF n = most THEN NoMatch
                 ELSE RunRep(h, most, n + 1, rest, s, pos, caps)))

\* The names of the named groups of a pattern.
RECURSIVE GroupNames(_)
GroupNames(nodes) ==
    IF Len(nodes) = 0 THEN {}
    ELSE LET h == Head(nodes)
         IN  (CASE h.t \in {"grp", "opt"} ->
                     (IF h.t = "grp" THEN {h.name} ELSE {}) \cup GroupNames(h.sub)
                [] h.t = "alt" -> GroupNames(h.a) \cup GroupNames(h.b)
                [] OTHER -> {})
             \cup GroupNames(Tail(nodes))

\* pattern.match(s): anchored at the start of s, not at its end.  The result
\* carries groupdict(): every named group, None for one that took no part.
ReMatch(nodes, s) ==
    LET r == Run(nodes, s, 1, EmptyDict)
    IN  IF r.ok
        THEN [ok |-> TRUE,
              gd |-> [g \in GroupNames(nodes) |-> Get(r.gd, g)],
              end |-> r.end]
        ELSE NoMatch

-----------------------------------------------------------------------------
(* The pattern registry (fastq.py lines 10-31) *)

NACTG == {"N", "A", "C", "T", "G"}
InstrumentChar == Lower \cup Upper \cup Digit \cup {"_", "-"}     \* [a-zA-Z0-9_-]
FlowcellChar == Lower \cup Upper \cup Digit                       \* [a-zA-Z0-9]

\* (?P<name>.*)(?P<extension>\.fastq|\.fastq\.gz|\.fq|fq\.gz)$
FastqFilename ==
    [name |-> <<"F", "a", "s", "t", "q", "F", "i", "l", "e", "n", "a", "m", "e">>,
     pattern |->
       << Grp("name", <<Star(Dot)>>),
          Grp("extension",
              <<Alt(<<Lit(<<".", "f", "a", "s", "t", "q">>)>>,
                    <<Alt(<<Lit(<<".", "f", "a", "s", "t", "q", ".", "g", "z">>)>>,
                          <<Alt(<<Lit(<<".", "f", "q">>)>>, <<Lit(<<"f", "q", ".", "g", "z">>)>>)>>)>>)>>),
          Eos >>]

\* (?P<name>.+?)_?(?P<barcode>[NACTG]{3,30})?_?(?P<lane>L\d{3})?(_)?
\* (?P<read>R\d)?_?(?P<set>\d{3})(?P<extension>\.fastq|\.fastq\.gz)$
IlluminaFastqFilename ==
    [name |-> <<"I", "l", "l", "u", "m", "i", "n", "a", "F", "a", "s", "t", "q", "F", "i", "l", "e", "n", "a", "m", "e">>,
     pattern |->
       << Grp("name", <<PlusLazy(Dot)>>),
          Opt(<<Lit(<<"_">>)>>),
          Opt(<<Grp("barcode", <<Rep(Cls(NACTG), 3, 30, TRUE)>>)>>),
          Opt(<<Lit(<<"_">>)>>),
          Opt(<<Grp("lane", <<Lit(<<"L">>), Rep(Cls(Digit), 3, 3, TRUE)>>)>>),
          Opt(<<Lit(<<"_">>)>>),
          Opt(<<Grp("read", <<Lit(<<"R">>), Cls(Digit)>>)>>),
          Opt(<<Lit(<<"_">>)>>),
          Grp("set", <<Rep(Cls(Digit), 3, 3, TRUE)>>),
          Grp("extension", <<Alt(<<Lit(<<".", "f", "a", "s", "t", "q">>)>>, <<Lit(<<".", "f", "a", "s", "t", "q", ".", "g", "z">>)>>)>>),
          Eos >>]

\* @(?P<instrument>[a-zA-Z0-9_-]*):(?P<lane>\d*):(?P<tile>\d*):(?P<x_pos>\d*)
\* :(?P<y_pos>\d*)(?P<index_number>#\d|[NACTG]*)\/(?P<read>\d)
IlluminaSeqidV1 ==
    [name |-> <<"I", "l", "l", "u", "m", "i", "n", "a", "S", "e", "q", "i", "d", "V", "1">>,
     pattern |->
       << Lit(<<"@">>),
          Grp("instrument", <<Star(Cls(InstrumentChar))>>), Lit(<<":">>),
          Grp("lane", <<Star(Cls(Digit))>>), Lit(<<":">>),
          Grp("tile", <<Star(Cls(Digit))>>), Lit(<<":">>),
          Grp("x_pos", <<Star(Cls(Digit))>>), Lit(<<":">>),
          Grp("y_pos", <<Star(Cls(Digit))>>),
          Grp("index_number",
              <<Alt(<<Lit(<<"#">>), Cls(Digit)>>, <<Star(Cls(NACTG))>>)>>),
          Lit(<<"/">>),
          Grp("read", <<Cls(Digit)>>) >>]

\* @(?P<instrument>[a-zA-Z0-9_-]*):(?P<run_number>\d*):(?P<flowcellID>[a-zA-Z0-9]*)
\* :(?P<lane>\d*):(?P<tile>\d*):(?P<x_pos>\d*):(?P<y_pos>\d*)\s(?P<read>\d*)
\* :(?P<is_filtered>[YN]):(?P<control_number>\d*):(?P<index_sequence>[NACTG]*)
IlluminaSeqidV2 ==
    [name |-> <<"I", "l", "l", "u", "m", "i", "n", "a", "S", "e", "q", "i", "d", "V", "2">>,
     pattern |->
       << Lit(<<"@">>),
          Grp("instrument", <<Star(Cls(InstrumentChar))>>), Lit(<<":">>),
          Grp("run_number", <<Star(Cls(Digit))>>), Lit(<<":">>),
          Grp("flowcellID", <<Star(Cls(FlowcellChar))>>), Lit(<<":">>),
          Grp("lane", <<Star(Cls(Digit))>>), Lit(<<":">>),
          Grp("tile", <<Star(Cls(Digit))>>), Lit(<<":">>),
          Grp("x_pos", <<Star(Cls(Digit))>>), Lit(<<":">>),
          Grp("y_pos", <<Star(Cls(Digit))>>),
          Cls(Whitespace),
          Grp("read", <<Star(Cls(Digit))>>), Lit(<<":">>),
          Grp("is_filtered", <<Cls({"Y", "N"})>>), Lit(<<":">>),
          Grp("control_number", <<Star(Cls(Digit))>>), Lit(<<":">>),
          Grp("index_sequence", <<Star(Cls(NACTG))>>) >>]

filename_patterns == <<IlluminaFastqFilename, FastqFilename>>
seqid_patterns == <<IlluminaSeqidV2, IlluminaSeqidV1>>

-----------------------------------------------------------------------------
(* The file system.  A file is [readable, lines]: readable is FALSE when    *)
(* opening or reading it raises (permission, a name ending in gz on data   *)
(* that is not gzip, undecodable bytes); lines is its decompressed text,   *)
(* one entry per line, without the line terminators.                       *)

File(readable, lines) == [readable |-> readable, lines |-> lines]

\* open(path) succeeds and the first readline() returns.
CanRead(files, path) == path \in DOMAIN files /\ files[path].readable

\* fq.readline() on a freshly opened file: the first line with its
\* terminator, '' at end of file.
ReadLine(file) == IF Len(file.lines) = 0 THEN <<>> ELSE file.lines[1] \o <<"\n">>

-----------------------------------------------------------------------------
(* class Fastq (fastq.py lines 34-100) *)

\* self.attr = value
SetAttr(self, attr, value) == (attr :> value) @@ self

\* Lines 50-55: what one pass of the loop over filename_patterns assigns when
\* its pattern matched with the groups gd.
AssignFilename(self, pattern, gd) ==
    [filename_pattern |-> pattern.name,
     name |-> gd.name,
     lane |-> Or(Get(gd, "lane"), <<"1">>),
     read |-> ToInt(Strip(Or(Get(gd, "read"), <<"1">>), {"R"}))] @@ self

\* Lines 47-55: the loop over filename_patterns.  The body has no break, so
\* every pattern of the tuple is tried, in order, and each one that matches
\* assigns the attributes again.
RECURSIVE ParseFilename(_, _)
ParseFilename(self, patterns) ==
    IF Len(patterns) = 0 THEN self
    ELSE CHOOSE done \in
           {ParseFilename(IF groups.ok
                          THEN AssignFilename(self, Head(patterns), groups.gd)
                          ELSE self,
                          Tail(patterns)) :
              groups \in {ReMatch(Head(patterns).pattern, self.filename)}} : TRUE

\* Lines 71-76: what one pass of the loop over seqid_patterns assigns when its
\* pattern matched with the groups gd.
AssignSeqid(self, pattern, gd) ==
    [seqid_pattern |-> pattern.name,
     instrument |-> Get(gd, "instrument"),
     run_number |-> Get(gd, "run_number"),
     fcid |-> Get(gd, "flowcellID"),
     lane |-> Or(Get(gd, "lane"), self.lane)] @@ self

\* Lines 68-76: the loop over seqid_patterns, again without break.
RECURSIVE ParseSeqidLoop(_, _)
ParseSeqidLoop(self, patterns) ==
    IF Len(patterns) = 0 THEN self
    ELSE CHOOSE done \in
           {ParseSeqidLoop(IF groups.ok
                           THEN AssignSeqid(self, Head(patterns), groups.gd)
                           ELSE self,
                           Tail(patterns)) :
              groups \in {ReMatch(Head(patterns).pattern, self.seqid)}} : TRUE

\* Lines 67-79: the for statement with its else clause.  The else clause of a
\* for runs whenever the loop ends without break; this loop has no break, so
\* the else clause runs after every loop, matched or not.
ParseSeqid(self) ==
    [seqid_pattern |-> None, fcid |-> <<"U", "n", "k", "n", "o", "w", "n">>]
        @@ ParseSeqidLoop(self, seqid_patterns)

\* Line 81: the read group tag.
SetReadgroup(self) ==
    SetAttr(self, "readgroup", Str(self.fcid) \o Str(self.lane))

\* Lines 57-81, for a file that can be read.
FastqRead(self, file) ==
    SetReadgroup(ParseSeqid(SetAttr(self, "seqid",
                                    Strip(ReadLine(file), Whitespace))))

\* Lines 46-59 and 63: the filename parsed and the gzipped flag set.
FastqNamed(self) ==
    SetAttr(ParseFilename(self, filename_patterns), "gzipped",
            EndsWith(self.path, <<"g", "z">>))

\* Fastq(path) on the given file system: [raised, self, opened].  raised is
\* "none" or the exception; opened tells whether opening the file was tried.
Fastq(path, files) ==
    IF ~ReMatch(FastqFilename.pattern, basename(path)).ok
    THEN [raised |-> "ValueError",
          self |-> [path |-> path, filename |-> basename(path)],
          opened |-> FALSE]
    ELSE IF ~CanRead(files, path)
    THEN [raised |-> "IOError",
          self |-> FastqNamed([path |-> path, filename |-> basename(path)]),
          opened |-> TRUE]
    ELSE [raised |-> "none",
          self |-> FastqRead(FastqNamed([path |-> path, filename |-> basename(path)]),
                             files[path]),
          opened |-> TRUE]

\* The value of (i + 1)/4 on line 100, as [type, num, den] standing for the
\* number num/den.  Python 2 divides two ints by floor division and gives an
\* int; Python 3 gives the exact quotient as a float.
Divide(a, b, major) ==
    IF major = 2
    THEN [type |-> "int", num |-> a \div b, den |-> 1]
    ELSE [type |-> "float", num |-> a, den |-> b]

-----------------------------------------------------------------------------
(* Helpers of the commands (fastq.py lines 103-181) *)

\* re.compile(text) for a --filter made of literal characters only.
re_compile(text) == <<Lit(text)>>

\* Lines 123-125: keep the paths the compiled filter matches, from the start
\* of the path (filter.match, not filter.search).
filter_paths(paths, filter) ==
    SelectSeq(paths, LAMBDA path : ReMatch(filter, path).ok)

\* The orderings of a finite set, as sequences.
Orderings(S) ==
    {order \in [1..Cardinality(S) -> S] :
        \A a, b \in 1..Cardinality(S) : a # b => order[a] # order[b]}

\* Lines 128-137: the files under the directory whose base name matches
\* FastqFilename, joined to their directory.  os.walk lists a directory in
\* the order the file system gives, so the result is any ordering of them.
\* The roots of the model are absolute and normalised: abspath and expanduser
\* leave them as they are.
scan_dir(path, files) ==
    Orderings({p \in DOMAIN files :
                 /\ StartsWith(p, path \o <<"/">>)
                 /\ ReMatch(FastqFilename.pattern, basename(p)).ok})

\* Lines 143-144: the sample's dict is created with its name.
ensure_sample(samples0, name) ==
    IF name \notin DOMAIN samples0
    THEN (name :> [name |-> name]) @@ samples0 ELSE samples0

\* Lines 145-146.
ensure_name(samples0, name) ==
    IF "name" \notin DOMAIN samples0[name]
    THEN [samples0 EXCEPT ![name] = ("name" :> name) @@ @] ELSE samples0

\* Lines 147-148.
ensure_readgroups(samples0, name) ==
    IF "readgroups" \notin DOMAIN samples0[name]
    THEN [samples0 EXCEPT ![name] = ("readgroups" :> EmptyDict) @@ @] ELSE samples0

\* Lines 149-150: a new read group starts as the list [None].
ensure_readgroup(samples0, name, readgroup) ==
    IF readgroup \notin DOMAIN samples0[name].readgroups
    THEN [samples0 EXCEPT ![name].readgroups = (readgroup :> <<None>>) @@ @]
    ELSE samples0

\* A padding loop that runs once too often (while len(...) <= read).
grow_once_more(reads, read) ==
    IF Len(reads) <= read
    THEN reads \o [k \in 1..(read + 1 - Len(reads)) |-> None] ELSE reads

\* Lines 151-152: the while loop appends None until the list has read entries.
grow(reads, read) ==
    IF Len(reads) < read
    THEN reads \o [k \in 1..(read - Len(reads)) |-> None] ELSE reads

\* A store that ignores the index and overwrites the last entry.
set_last_item(reads, index, path) ==
    [reads EXCEPT ![Len(reads)] = path]

\* reads[index] = path, indexed as Python does: a negative index counts from
\* the end of the list.
set_item(reads, index, path) ==
    [reads EXCEPT ![(IF index < 0 THEN index + Len(reads) ELSE index) + 1] = path]

\* Lines 151-156: the list of the read group padded, then the path stored at
\* read - 1.
place(samples0, fastq) ==
    [samples0 EXCEPT ![fastq.name].readgroups[fastq.readgroup] =
                         set_item(grow(@, fastq.read), fastq.read - 1, fastq.path)]

\* Lines 143-156: the body of the loop of build_samples, for one Fastq.
build_step(samples0, fastq) ==
    place(ensure_readgroup(
              ensure_readgroups(
                  ensure_name(ensure_sample(samples0, fastq.name), fastq.name),
                  fastq.name),
              fastq.name, fastq.readgroup),
          fastq)

\* Lines 140-157: build_samples(fastqs), the loop from an empty dict.
RECURSIVE build_from(_, _)
build_from(samples0, records) ==
    IF Len(records) = 0 THEN samples0
    ELSE build_from(build_step(samples0, Head(records)), Tail(records))

build_samples(records) == build_from(EmptyDict, records)

\* as_json and as_yaml (lines 103-110): the text written, kept as the format
\* and the mapping it renders (None is rendered null).
Serialize(format, mapping) == [format |-> format, doc |-> mapping]

\* Lines 160-169: print_samplesheet, as [raised, texts]: the exception and
\* the texts written to fp.  The serializer is chosen, or the ValueError
\* raised, before anything is written.
print_samplesheet(sheet, format) ==
    IF format \in {"json", "yaml"}
    THEN [raised |-> "none", texts |-> <<Serialize(format, sheet)>>]
    ELSE [raised |-> "ValueError_print", texts |-> <<>>]

\* A loader that opens the file before it looks at the format.
load_then_validate(path, format, files) ==
    IF ~CanRead(files, path)
    THEN [raised |-> "IOError", opened |-> TRUE, doc |-> EmptyDict]
    ELSE IF format \notin {"yaml", "json"}
    THEN [raised |-> "ValueError_load", opened |-> TRUE, doc |-> EmptyDict]
    ELSE [raised |-> "none", opened |-> TRUE, doc |-> files[path].doc]

\* Lines 172-181: load_samplesheet, as [raised, opened, doc]: the loader is
\* chosen, or the ValueError raised, before the file is opened.  The stored
\* documents parse under either loader.
load_samplesheet(path, format, files) ==
    IF format \notin {"yaml", "json"}
    THEN [raised |-> "ValueError_load", opened |-> FALSE, doc |-> EmptyDict]
    ELSE IF ~CanRead(files, path)
    THEN [raised |-> "IOError", opened |-> TRUE, doc |-> EmptyDict]
    ELSE [raised |-> "none", opened |-> TRUE, doc |-> files[path].doc]

\* A merge that stores the new samples whatever the document holds.
merge_overwriting(sheet, new) ==
    ("samples" :> new) @@ [key \in DOMAIN sheet \ {"samples"} |-> sheet[key]]

\* Lines 251-252: the new samples are stored only when the loaded document
\* has no "samples" key.
merge_samples(sheet, new) ==
    IF "samples" \notin DOMAIN sheet THEN ("samples" :> new) @@ sheet ELSE sheet

\* A command that classifies every discovered path, filtered or not.
paths_unfiltered(paths, filter) == paths

\* Lines 228-229: the paths that are made into Fastq objects.
paths_to_classify(paths, filter) ==
    IF Truthy(filter) THEN filter_paths(paths, re_compile(filter)) ELSE paths

\* A command that builds and prints the samplesheet without --out too.
wants_output_always(out) == TRUE

\* Line 247: whether a samplesheet is built and printed.
wants_output(out) == out # None

\* One file operation of the log io.
Op(op, path) == [op |-> op, path |-> path]

-----------------------------------------------------------------------------
(* Bounds and the inputs of the model *)

MaxRecords == 3     \* build_samples: the longest list of Fastq objects
MaxRead == 3        \* build_samples: the highest read number
MaxLines == 8       \* length: the longest file, in lines

\* File names put together from the parts the filename patterns look for.
NameParts    == {<<"S", "a", "m", "p", "l", "e", "A">>, <<"x">>}
BarcodeParts == {<<>>, <<"_", "A", "C", "G", "T", "A", "C">>}
LaneParts    == {<<>>, <<"_", "L", "0", "0", "1">>, <<"_", "L", "0", "0", "2">>}
ReadParts    == {<<>>, <<"_", "R", "1">>, <<"_", "R", "2">>}
SetParts     == {<<>>, <<"_", "0", "0", "1">>}
ExtParts     == {<<".", "f", "a", "s", "t", "q">>, <<".", "f", "a", "s", "t", "q", ".", "g", "z">>, <<".", "f", "q">>, <<".", "f", "q", ".", "g", "z">>, <<".", "t", "x", "t">>}

Filenames ==
    {n \o b \o l \o r \o s \o e :
        n \in NameParts, b \in BarcodeParts, l \in LaneParts,
        r \in ReadParts, s \in SetParts, e \in ExtParts}

\* First lines: a header in the V2 layout, one with an empty lane field, a
\* header in the V1 layout, one with an empty lane field, and a line in
\* neither layout.
HeaderV2       == <<"@", "M", "1", ":", "7", ":", "F", "C", "1", ":", "2", ":", "1", "1", "0", "1", ":", "1", "5", ":", "2", "0", " ", "1", ":", "N", ":", "0", ":", "A", "C", "G">>
HeaderV2NoLane == <<"@", "M", "1", ":", "7", ":", "F", "C", "1", ":", ":", "1", "1", "0", "1", ":", "1", "5", ":", "2", "0", " ", "1", ":", "N", ":", "0", ":", "A", "C", "G">>
HeaderV1       == <<"@", "H", "W", "I", "-", "1", ":", "3", ":", "1", "1", ":", "5", ":", "9", "#", "0", "/", "1">>
HeaderV1NoLane == <<"@", "H", "W", "I", "-", "1", ":", ":", "1", "1", ":", "5", ":", "9", "#", "0", "/", "1">>
HeaderOther    == <<"@", "r", "e", "a", "d", "1">>

\* What a file can hold: no line at all, or one of the first lines.
FileContents ==
    {<<>>} \cup {<<h>> : h \in {HeaderV2, HeaderV2NoLane, HeaderV1, HeaderV1NoLane,
                                HeaderOther}}

\* The files of the data directory the commands are run on.
PathR1    == <<"/", "d", "a", "t", "a", "/", "a", "/", "S", "a", "m", "p", "l", "e", "A", "_", "L", "0", "0", "1", "_", "R", "1", "_", "0", "0", "1", ".", "f", "a", "s", "t", "q", ".", "g", "z">>
PathR2    == <<"/", "d", "a", "t", "a", "/", "a", "/", "S", "a", "m", "p", "l", "e", "A", "_", "L", "0", "0", "1", "_", "R", "2", "_", "0", "0", "1", ".", "f", "a", "s", "t", "q", ".", "g", "z">>
PathX     == <<"/", "d", "a", "t", "a", "/", "b", "/", "x", ".", "f", "q">>
PathNotes == <<"/", "d", "a", "t", "a", "/", "b", "/", "n", "o", "t", "e", "s", ".", "t", "x", "t">>
PathOld   == <<"/", "d", "a", "t", "a", "/", "o", "l", "d", ".", "y", "a", "m", "l">>       \* a samplesheet with a "samples" key
PathNew   == <<"/", "d", "a", "t", "a", "/", "n", "e", "w", ".", "y", "a", "m", "l">>       \* a samplesheet without one
PathOut   == <<"/", "d", "a", "t", "a", "/", "o", "u", "t", ".", "y", "a", "m", "l">>
FastqFiles == {PathR1, PathR2, PathX}

OldSamples ==
    (<<"O", "l", "d">> :> [name |-> <<"O", "l", "d">>, readgroups |-> (<<"F", "C", "0", "1">> :> <<<<"/", "o", "l", "d", "/", "r", "1", ".", "f", "q">>>>)])
DocOld == [project |-> <<"P", "1">>, samples |-> OldSamples]
DocNew == [project |-> <<"P", "2">>]
DocFile(doc) == [readable |-> TRUE, lines |-> <<>>, doc |-> doc]

\* The data directory, given which of the FASTQ files can be read.
DataDisk(readable) ==
    (PathR1 :> File(readable[PathR1], <<HeaderOther>>))
    @@ (PathR2 :> File(readable[PathR2], <<HeaderOther>>))
    @@ (PathX :> File(readable[PathX], <<HeaderV2>>))
    @@ (PathNotes :> File(TRUE, <<<<"n", "o", "t", "e", "s">>>>))
    @@ (PathOld :> DocFile(DocOld))
    @@ (PathNew :> DocFile(DocNew))

Blank ==
    /\ raised = "none"
    /\ fastq_paths = <<>>
    /\ fastqs = <<>>
    /\ stdout = <<>>
    /\ stderr = <<>>
    /\ io = <<>>
    /\ samples = EmptyDict
    /\ samplesheet = EmptyDict
    /\ written = <<>>
    /\ i = 0
    /\ fq = 0
    /\ returned = None
    /\ permuted = {}

-----------------------------------------------------------------------------
(* The check command (fastq.py lines 266-270) *)

\* The run is given one generated file in a directory of its own, readable
\* with any content or unreadable; or two paths of the data directory, one of
\* which may be missing.
CheckInit ==
    /\ cmd = "check"
    /\ pc = "loop"
    /\ python = 3
    /\ \/ \E f \in Filenames, file \in {File(TRUE, lines) : lines \in FileContents}
                                 \cup {File(FALSE, <<>>)} :
             /\ args = [path |-> <<<<"/", "d", "/">> \o f>>]
             /\ disk = (<<"/", "d", "/">> \o f :> file)
       \/ \E p, q \in {PathR1, PathX, PathNotes, <<"/", "d", "a", "t", "a", "/", "b", "/", "m", "i", "s", "s", "i", "n", "g", ".", "f", "q">>} :
             /\ args = [path |-> <<p, q>>]
             /\ disk = DataDisk([f \in FastqFiles |-> TRUE])
    /\ Blank

\* Lines 268-270: one iteration, Fastq(path) and print(fastq).  An exception
\* of the constructor ends the command.
CheckNext ==
    /\ cmd = "check" /\ pc = "loop" /\ i < Len(args.path)
    /\ \E r \in {Fastq(args.path[i + 1], disk)} :
          /\ io' = IF r.opened THEN Append(io, Op("read", args.path[i + 1])) ELSE io
          /\ IF r.raised # "none"
             THEN /\ raised' = r.raised
                  /\ pc' = "failed"
                  /\ UNCHANGED <<stdout, i>>
             ELSE /\ stdout' = Append(stdout, r.self)
                  /\ i' = i + 1
                  /\ UNCHANGED <<raised, pc>>
    /\ UNCHANGED <<cmd, disk, args, fastq_paths, fastqs, stderr, samples,
                   samplesheet, written, fq, returned, permuted, python>>

CheckReturn ==
    /\ cmd = "check" /\ pc = "loop" /\ i = Len(args.path)
    /\ pc' = "done"
    /\ UNCHANGED <<cmd, raised, disk, args, fastq_paths, fastqs, stdout, stderr, io,
                   samples, samplesheet, written, i, fq, returned, permuted, python>>

CheckNextState == CheckNext \/ CheckReturn

SpecCheck == CheckInit /\ [][CheckNextState]_vars

-----------------------------------------------------------------------------
(* build_samples on its own (fastq.py lines 140-157), one loop iteration   *)
(* per step, and then on every permutation of the same list.  The list is  *)
(* any list of up to MaxRecords Fastq objects, each of any sample and read *)
(* group and of any read number from 0 to MaxRead.                         *)

\* The sample and read group of a Fastq handed to build_samples.
BuildKeys == {<<<<"A">>, <<"F", "C", "1">>>>, <<<<"A">>, <<"F", "C", "2">>>>, <<<<"B">>, <<"F", "C", "1">>>>}

DigitChars == <<"1", "2", "3", "4", "5", "6", "7", "8", "9">>

\* The Fastq object at position k of the list, with a path of its own.  Of a
\* Fastq, build_samples reads name, readgroup, read and path.
BuildRecord(k, key, read) ==
    [name |-> key[1], readgroup |-> key[2], read |-> read,
     path |-> <<"/", "f", DigitChars[k]>>]

BuildInit ==
    /\ cmd = "build_samples"
    /\ pc = "loop"
    /\ python = 3
    /\ disk = EmptyDict
    /\ args = EmptyDict
    /\ raised = "none"
    /\ fastq_paths = <<>>
    /\ \E n \in 0..MaxRecords : \E c \in [1..n -> BuildKeys \X (0..MaxRead)] :
          fastqs = [k \in 1..n |-> BuildRecord(k, c[k][1], c[k][2])]
    /\ stdout = <<>>
    /\ stderr = <<>>
    /\ io = <<>>
    /\ samples = EmptyDict
    /\ samplesheet = EmptyDict
    /\ written = <<>>
    /\ i = 0
    /\ fq = 0
    /\ returned = None
    /\ permuted = {}

\* Lines 142-156: one iteration of the loop.
BuildNext ==
    /\ cmd = "build_samples" /\ pc = "loop" /\ i < Len(fastqs)
    /\ samples' = build_step(samples, fastqs[i + 1])
    /\ i' = i + 1
    /\ UNCHANGED <<cmd, pc, raised, disk, args, fastq_paths, fastqs, stdout, stderr,
                   io, samplesheet, written, fq, returned, permuted, python>>

\* Line 157: return samples.
BuildReturn ==
    /\ cmd = "build_samples" /\ pc = "loop" /\ i = Len(fastqs)
    /\ pc' = "done"
    /\ UNCHANGED <<cmd, raised, disk, args, fastq_paths, fastqs, stdout, stderr, io,
                   samples, samplesheet, written, i, fq, returned, permuted, python>>

\* build_samples called again on every permutation of the same list.
BuildPermuted ==
    /\ cmd = "build_samples" /\ pc = "done"
    /\ pc' = "permuted"
    /\ permuted' = {build_samples([k \in 1..Len(fastqs) |-> fastqs[p[k]]]) :
                       p \in Permutations(1..Len(fastqs))}
    /\ UNCHANGED <<cmd, raised, disk, args, fastq_paths, fastqs, stdout, stderr, io,
                   samples, samplesheet, written, i, fq, returned, python>>

BuildNextState == BuildNext \/ BuildReturn \/ BuildPermuted

SpecBuild == BuildInit /\ [][BuildNextState]_vars

-----------------------------------------------------------------------------
(* Fastq.length (fastq.py lines 86-100), one line of the file per step.    *)

LengthPaths == {<<"/", "d", "/", "x", ".", "f", "q">>, <<"/", "d", "/", "x", ".", "f", "q", ".", "g", "z">>}

\* A Fastq object constructed from a file of 0..MaxLines lines, under
\* either major version of the interpreter.
LengthInit ==
    /\ cmd = "length"
    /\ pc = "call"
    /\ python \in {2, 3}
    /\ \E path \in LengthPaths, n \in 0..MaxLines :
          /\ disk = (path :> File(TRUE, [k \in 1..n |-> HeaderOther]))
          /\ fastqs = <<Fastq(path, disk).self>>
    /\ args = EmptyDict
    /\ raised = "none"
    /\ fastq_paths = <<>>
    /\ stdout = <<>>
    /\ stderr = <<>>
    /\ io = <<>>
    /\ samples = EmptyDict
    /\ samplesheet = EmptyDict
    /\ written = <<>>
    /\ i = 0
    /\ fq = 0
    /\ returned = None
    /\ permuted = {}

\* Lines 88-97: openfn and mode are chosen from self.gzipped, i is set to 0
\* and the file is opened.
LengthOpen ==
    /\ cmd = "length" /\ pc = "call"
    /\ pc' = "loop"
    /\ i' = 0
    /\ fq' = 0
    /\ io' = Append(io, Op(IF fastqs[1].gzipped THEN "gzip.open" ELSE "open",
                           fastqs[1].path))
    /\ UNCHANGED <<cmd, raised, disk, args, fastq_paths, fastqs, stdout, stderr,
                   samples, samplesheet, written, returned, permuted, python>>

\* Lines 98-99: one iteration of for i, l in enumerate(fq): i is the index of
\* the line read, counted from 0.
LengthNext ==
    /\ cmd = "length" /\ pc = "loop" /\ fq < Len(disk[fastqs[1].path].lines)
    /\ i' = fq
    /\ fq' = fq + 1
    /\ UNCHANGED <<cmd, pc, raised, disk, args, fastq_paths, fastqs, stdout, stderr,
                   io, samples, samplesheet, written, returned, permuted, python>>

\* Line 100: return (i + 1)/4, once the file is exhausted.
LengthReturn ==
    /\ cmd = "length" /\ pc = "loop" /\ fq = Len(disk[fastqs[1].path].lines)
    /\ returned' = Divide(i + 1, 4, python)
    /\ pc' = "done"
    /\ UNCHANGED <<cmd, raised, disk, args, fastq_paths, fastqs, stdout, stderr, io,
                   samples, samplesheet, written, i, fq, permuted, python>>

LengthNextState == LengthOpen \/ LengthNext \/ LengthReturn

SpecLength == LengthInit /\ [][LengthNextState]_vars

-----------------------------------------------------------------------------
(* The discover command (fastq.py lines 184-256) *)

\* The command lines of the model.  --filter is None or a literal prefix,
\* --out is None or a file to write, --append is None or a samplesheet of
\* the data directory, --loader and --format are a supported format or one
\* that is not.
ArgRoots   == {<<<<"/", "d", "a", "t", "a", "/", "a">>>>, <<<<"/", "d", "a", "t", "a", "/", "b">>>>, <<<<"/", "d", "a", "t", "a", "/", "a">>, <<"/", "d", "a", "t", "a", "/", "b">>>>}
ArgFilters == {None, <<"/", "d", "a", "t", "a", "/", "a", "/">>, <<"/", "d", "a", "t", "a", "/", "b", "/", "x">>}
ArgOuts    == {None, PathOut}
ArgAppends == {None, PathOld, PathNew}
ArgLoaders == {"json", "xml"}
ArgFormats == {"yaml", "xml"}

DiscoverInit ==
    /\ cmd = "discover"
    /\ pc = "args"
    /\ python = 3
    /\ \E readable \in [FastqFiles -> BOOLEAN] :
          readable[PathR2] /\ disk = DataDisk(readable)
    /\ \E roots \in ArgRoots, filter \in ArgFilters, out \in ArgOuts,
          append \in ArgAppends, loader \in ArgLoaders, format \in ArgFormats,
          quiet \in BOOLEAN :
          args = [path |-> roots, filter |-> filter, out |-> out, append |-> append,
                  loader |-> loader, format |-> format, quiet |-> quiet]
    /\ Blank

\* Lines 184-216 and 220: get_args_discover.  argparse.FileType('w') opens
\* the --out file for writing as the arguments are parsed, which creates or
\* truncates it.
GetArgs ==
    /\ cmd = "discover" /\ pc = "args"
    /\ io' = IF args.out # None THEN Append(io, Op("open_w", args.out)) ELSE io
    /\ pc' = "scan"
    /\ UNCHANGED <<cmd, raised, disk, args, fastq_paths, fastqs, stdout, stderr,
                   samples, samplesheet, written, i, fq, returned, permuted, python>>

\* Lines 224-225: one iteration, fastq_paths += scan_dir(path).
ScanNext ==
    /\ cmd = "discover" /\ pc = "scan" /\ i < Len(args.path)
    /\ \E found \in scan_dir(args.path[i + 1], disk) :
          fastq_paths' = fastq_paths \o found
    /\ i' = i + 1
    /\ UNCHANGED <<cmd, pc, raised, disk, args, fastqs, stdout, stderr, io, samples,
                   samplesheet, written, fq, returned, permuted, python>>

\* Lines 227-229: the filter, applied to the paths before any is classified.
FilterPaths ==
    /\ cmd = "discover" /\ pc = "scan" /\ i = Len(args.path)
    /\ fastq_paths' = paths_to_classify(fastq_paths, args.filter)
    /\ pc' = "classify"
    /\ i' = 0
    /\ UNCHANGED <<cmd, raised, disk, args, fastqs, stdout, stderr, io, samples,
                   samplesheet, written, fq, returned, permuted, python>>

\* Line 232: one element of the list comprehension, Fastq(path).  An
\* exception of the constructor ends the command.
ClassifyNext ==
    /\ cmd = "discover" /\ pc = "classify" /\ i < Len(fastq_paths)
    /\ \E r \in {Fastq(fastq_paths[i + 1], disk)} :
          /\ io' = IF r.opened THEN Append(io, Op("read", fastq_paths[i + 1])) ELSE io
          /\ IF r.raised # "none"
             THEN /\ raised' = r.raised
                  /\ pc' = "failed"
                  /\ UNCHANGED <<fastqs, i>>
             ELSE /\ fastqs' = Append(fastqs, r.self)
                  /\ i' = i + 1
                  /\ UNCHANGED <<raised, pc>>
    /\ UNCHANGED <<cmd, disk, args, fastq_paths, stdout, stderr, samples,
                   samplesheet, written, fq, returned, permuted, python>>

\* Lines 234-244: the summary on stderr, unless --quiet.
LogSummary ==
    /\ cmd = "discover" /\ pc = "classify" /\ i = Len(fastq_paths)
    /\ stderr' = IF args.quiet THEN stderr
                 ELSE <<<<<<"F", "i", "l", "e", "n", "a", "m", "e">>, <<"S", "e", "q", "u", "e", "n", "c", "e", "I", "D">>, <<"P", "a", "t", "h">>>>>>
                      \o [k \in 1..Len(fastqs) |->
                            <<Str(fastqs[k].filename_pattern),
                              Str(fastqs[k].seqid_pattern), fastqs[k].path>>]
    /\ pc' = "output"
    /\ UNCHANGED <<cmd, raised, disk, args, fastq_paths, fastqs, stdout, io, samples,
                   samplesheet, written, i, fq, returned, permuted, python>>

\* Line 247, --out not given: nothing more is done.
NoOutput ==
    /\ cmd = "discover" /\ pc = "output" /\ ~wants_output(args.out)
    /\ pc' = "done"
    /\ UNCHANGED <<cmd, raised, disk, args, fastq_paths, fastqs, stdout, stderr, io,
                   samples, samplesheet, written, i, fq, returned, permuted, python>>

\* Lines 248-249 and 253-254: build_samples, and without --append the new
\* document.
BuildSamples ==
    /\ cmd = "discover" /\ pc = "output" /\ wants_output(args.out)
    /\ samples' = build_samples(fastqs)
    /\ IF Truthy(args.append)
       THEN pc' = "append" /\ UNCHANGED samplesheet
       ELSE pc' = "print" /\ samplesheet' = [samples |-> samples']
    /\ UNCHANGED <<cmd, raised, disk, args, fastq_paths, fastqs, stdout, stderr, io,
                   written, i, fq, returned, permuted, python>>

\* Lines 250-252: the document is loaded and the samples merged into it.
LoadSamplesheet ==
    /\ cmd = "discover" /\ pc = "append"
    /\ \E r \in {load_samplesheet(args.append, args.loader, disk)} :
          /\ io' = IF r.opened THEN Append(io, Op("read", args.append)) ELSE io
          /\ IF r.raised # "none"
             THEN /\ raised' = r.raised
                  /\ pc' = "failed"
                  /\ UNCHANGED samplesheet
             ELSE /\ samplesheet' = merge_samples(r.doc, samples)
                  /\ pc' = "print"
                  /\ UNCHANGED raised
    /\ UNCHANGED <<cmd, disk, args, fastq_paths, fastqs, stdout, stderr, samples,
                   written, i, fq, returned, permuted, python>>

\* Line 256: print_samplesheet(samplesheet, args.out, args.format).
PrintSamplesheet ==
    /\ cmd = "discover" /\ pc = "print"
    /\ \E r \in {print_samplesheet(samplesheet, args.format)} :
          /\ written' = written \o r.texts
          /\ io' = io \o [k \in 1..Len(r.texts) |-> Op("write", args.out)]
          /\ raised' = r.raised
          /\ pc' = IF r.raised # "none" THEN "failed" ELSE "done"
    /\ UNCHANGED <<cmd, disk, args, fastq_paths, fastqs, stdout, stderr, samples,
                   samplesheet, i, fq, returned, permuted, python>>

Init == DiscoverInit

Next ==
    \/ GetArgs
    \/ ScanNext
    \/ FilterPaths
    \/ ClassifyNext
    \/ LogSummary
    \/ NoOutput
    \/ BuildSamples
    \/ LoadSamplesheet
    \/ PrintSamplesheet

Spec == Init /\ [][Next]_vars

-----------------------------------------------------------------------------
(* Properties of the classification, checked on the records the check      *)
(* command prints (SpecCheck).                                             *)

\* C1: filename classification is first-match-wins.  For every file whose
\* base name matches the Illumina-style pattern, the record carries the name
\* and read number that pattern extracts and names that pattern, and its lane
\* is the lane that pattern extracts unless the sequence identifier supplied
\* one; the generic fallback pattern is not applied after it.
C1_FirstFilenameMatchWins ==
    \A k \in 1..Len(stdout) :
        \A m \in {ReMatch(IlluminaFastqFilename.pattern, stdout[k].filename)} :
            m.ok =>
              /\ stdout[k].filename_pattern = IlluminaFastqFilename.name
              /\ stdout[k].name = m.gd.name
              /\ stdout[k].read = ToInt(Strip(Or(m.gd.read, <<"1">>), {"R"}))
              /\ \/ stdout[k].lane = Or(m.gd.lane, <<"1">>)
                 \/ \E p \in {IlluminaSeqidV2, IlluminaSeqidV1} :
                       \E s \in {ReMatch(p.pattern, stdout[k].seqid)} :
                           s.ok /\ Truthy(s.gd.lane)

\* C2: the flow-cell id is "Unknown", and no sequence-identifier pattern is
\* named, exactly when no sequence-identifier pattern matches the first line;
\* when the V2 pattern matches, the flow-cell id is the one captured from the
\* header, the V2 pattern is named, and the read group key is that flow-cell
\* id followed by the lane.
C2_FlowcellFromMatchedHeader ==
    \A k \in 1..Len(stdout) :
        \A v2 \in {ReMatch(IlluminaSeqidV2.pattern, stdout[k].seqid)},
           v1 \in {ReMatch(IlluminaSeqidV1.pattern, stdout[k].seqid)} :
            /\ (stdout[k].fcid = <<"U", "n", "k", "n", "o", "w", "n">> /\ stdout[k].seqid_pattern = None)
                  <=> ~(v2.ok \/ v1.ok)
            /\ v2.ok =>
                  /\ stdout[k].fcid = v2.gd.flowcellID
                  /\ stdout[k].seqid_pattern = IlluminaSeqidV2.name
                  /\ stdout[k].readgroup = v2.gd.flowcellID \o stdout[k].lane

-----------------------------------------------------------------------------
(* Properties of build_samples (SpecBuild) *)

\* The positions, among the first n records of list, of the records of the
\* sample and read group, and of those with the read number as well.
Seen(list, n, name, readgroup) ==
    {k \in 1..n : list[k].name = name /\ list[k].readgroup = readgroup}

Targeted(list, n, name, readgroup, read) ==
    {k \in Seen(list, n, name, readgroup) : list[k].read = read}

Highest(S) == CHOOSE x \in S : \A y \in S : y <= x

\* C3: after any prefix of a list of records with read numbers >= 1 has been
\* folded, the samples present are those of the prefix, and for every sample
\* and read group present the list is as long as the highest read number
\* seen for the pair, the slot read - 1 holds the path of the last record
\* folded for (sample, read group, read), and every slot never targeted holds
\* None.
C3_SlotsAfterEveryPrefix ==
    (cmd = "build_samples" /\ \A k \in 1..i : fastqs[k].read >= 1) =>
        /\ DOMAIN samples = {fastqs[k].name : k \in 1..i}
        /\ \A name \in DOMAIN samples :
              /\ samples[name].name = name
              /\ DOMAIN samples[name].readgroups =
                    {fastqs[k].readgroup : k \in {j \in 1..i : fastqs[j].name = name}}
              /\ \A readgroup \in DOMAIN samples[name].readgroups :
                    /\ Len(samples[name].readgroups[readgroup]) =
                          Highest({fastqs[k].read : k \in Seen(fastqs, i, name, readgroup)})
                    /\ \A read \in 1..Len(samples[name].readgroups[readgroup]) :
                          samples[name].readgroups[readgroup][read] =
                             IF Targeted(fastqs, i, name, readgroup, read) = {}
                             THEN None
                             ELSE fastqs[Highest(Targeted(fastqs, i, name, readgroup,
                                                          read))].path

\* A sparse list whose filled slot was written twice: two records for read 3
\* of one read group, and none for reads 1 and 2.
C3_Witness ==
    /\ cmd = "build_samples" /\ i = 2
    /\ fastqs[1].read = 3 /\ fastqs[2].read = 3
    /\ fastqs[1].name = fastqs[2].name /\ fastqs[1].readgroup = fastqs[2].readgroup
    /\ samples[fastqs[1].name].readgroups[fastqs[1].readgroup]
          = <<None, None, fastqs[2].path>>

\* No two records of the list share sample, read group and read number.
DistinctTriples(list) ==
    \A a, b \in 1..Len(list) :
        (a # b) => <<list[a].name, list[a].readgroup, list[a].read>>
                     # <<list[b].name, list[b].readgroup, list[b].read>>

\* C4: for records with read numbers >= 1 and pairwise distinct (sample,
\* read group, read), build_samples gives the same mapping for every
\* permutation of the list.
C4_OrderIndependent ==
    ( /\ cmd = "build_samples" /\ pc = "permuted"
      /\ \A k \in 1..Len(fastqs) : fastqs[k].read >= 1
      /\ DistinctTriples(fastqs) )
    => permuted = {samples}

\* Read 2 handed over before read 1 of the same read group.
C4_Witness ==
    /\ cmd = "build_samples" /\ pc = "permuted" /\ Len(fastqs) >= 2
    /\ DistinctTriples(fastqs)
    /\ fastqs[1].read = 2 /\ fastqs[2].read = 1
    /\ fastqs[1].name = fastqs[2].name /\ fastqs[1].readgroup = fastqs[2].readgroup
    /\ \A k \in 1..Len(fastqs) : fastqs[k].read >= 1
    /\ SubSeq(samples[fastqs[1].name].readgroups[fastqs[1].readgroup], 1, 2)
          = <<fastqs[2].path, fastqs[1].path>>

-----------------------------------------------------------------------------
(* Property of Fastq.length (SpecLength) *)

\* C9: the read count returned is an integer, floor(lineCount / 4).
C9_LengthIsFloorOfQuarter ==
    (cmd = "length" /\ pc = "done") =>
        /\ returned.type = "int"
        /\ returned.num = (Len(disk[fastqs[1].path].lines) \div 4) * returned.den

-----------------------------------------------------------------------------
(* Properties of the discover command (Spec) *)

\* The paths the scan of the roots finds, and those of them the --filter
\* keeps (all of them without --filter).
Discovered ==
    UNION {{order[k] : k \in DOMAIN order} :
             order \in UNION {scan_dir(args.path[r], disk) : r \in DOMAIN args.path}}

PassesFilter(path) ==
    Truthy(args.filter) => ReMatch(re_compile(args.filter), path).ok

\* The file operations done so far, as a set.
Done == {io[k] : k \in DOMAIN io}

\* The positions of the command after the Fastq objects have all been made.
Classified == {"output", "append", "print", "done"}

C6_SampleAPairsItsReads ==
    ( /\ cmd = "discover" /\ pc \in {"append", "print", "done"}
      /\ {fastqs[k].path : k \in DOMAIN fastqs} = {PathR1, PathR2}
      /\ Len(fastqs) = 2 )
    => samples = (<<"S", "a", "m", "p", "l", "e", "A">> :>
                     [name |-> <<"S", "a", "m", "p", "l", "e", "A">>,
                      readgroups |-> (<<"U", "n", "k", "n", "o", "w", "n", "1">> :> <<PathR1, PathR2>>)])

\* C7 as stated: every discovered path is classified before the filter is
\* applied, so the command gets past the classification only if every
\* discovered file, those the filter excludes included, was opened and
\* classified without error.
C7_ClassifiedBeforeFiltered ==
    (cmd = "discover" /\ pc \in Classified) =>
        \A path \in Discovered : CanRead(disk, path) /\ Op("read", path) \in Done

\* C7, amended: the filter comes before the classification.  Only discovered
\* paths that pass the filter are opened and classified; the command gets
\* past the classification only if each of them was classified without
\* error; a failure of one of them ends the run; and nothing is aggregated,
\* loaded or written before the classification is over.
C7_FilteredBeforeClassified ==
    (cmd = "discover") =>
        /\ \A path \in DOMAIN disk :
              (Op("read", path) \in Done /\ path # args.append)
                 => path \in Discovered /\ PassesFilter(path)
        /\ pc \in Classified =>
              /\ \A path \in Discovered :
                    PassesFilter(path) =>
                       CanRead(disk, path) /\ Op("read", path) \in Done
              /\ {fastqs[k].path : k \in DOMAIN fastqs}
                    = {path \in Discovered : PassesFilter(path)}
        /\ (\E path \in Discovered : PassesFilter(path) /\ Op("read", path) \in Done
                                      /\ ~CanRead(disk, path))
              => pc = "failed" /\ raised = "IOError"
        /\ pc \in {"args", "scan", "classify"} =>
              /\ DOMAIN samples = {} /\ written = <<>>
              /\ \A op \in Done : op.path # args.append

\* The run is completed although a discovered file the filter excludes
\* cannot be read.
C7_Witness ==
    /\ cmd = "discover" /\ pc = "done" /\ Truthy(args.filter)
    /\ Len(fastqs) > 0
    /\ \E path \in Discovered : ~PassesFilter(path) /\ ~CanRead(disk, path)

\* C8 as stated: a run of discover that ends in the unsupported-format error
\* has opened, read, created or truncated no file.
C8_NoFileTouchedBeforeError ==
    (cmd = "discover" /\ raised \in {"ValueError_load", "ValueError_print"})
    => io = <<>>

\* C8, amended: the load and the save fail on an unsupported format before
\* doing any I/O of their own: a failed load has not opened the --append
\* document, and after either failure nothing has been written to the
\* output.  By then the run has opened the --out file for writing and has
\* read every discovered FASTQ file that passes the filter, and a failed
\* save follows the reading of the --append document, when there is one.
C8_OperationFailsBeforeItsOwnIO ==
    (cmd = "discover" /\ raised \in {"ValueError_load", "ValueError_print"})
    => /\ pc = "failed"
       /\ written = <<>>
       /\ Op("write", args.out) \notin Done
       /\ raised = "ValueError_load" =>
             /\ args.loader \notin {"json", "yaml"}
             /\ Op("read", args.append) \notin Done
       /\ raised = "ValueError_print" =>
             /\ args.format \notin {"json", "yaml"}
             /\ Truthy(args.append) => Op("read", args.append) \in Done
       /\ io[1] = Op("open_w", args.out)
       /\ \A path \in Discovered :
             PassesFilter(path) => Op("read", path) \in Done

\* The load fails on its format after FASTQ files were read.
C8_Witness ==
    /\ cmd = "discover" /\ raised = "ValueError_load"
    /\ Len(fastqs) > 0
    /\ Op("read", fastqs[1].path) \in Done
    /\ Op("read", args.append) \notin Done

=============================================================================
